---- MODULE Spec2Model ----
(***************************************************************************)
(* The user API of server/index.ts: an in-memory array of user records and *)
(* the four tRPC procedures getUsers, getUserById, createUser, deleteUser.  *)
(* A JavaScript string is modelled as the sequence of its characters, so   *)
(* that String(n), the length checks and the email grammar are computed.   *)
(***************************************************************************)
EXTENDS Integers, Sequences, FiniteSets, TLC

VARIABLES users, lastOp, lastInput, lastResult, prevUsers, retired

vars == <<users, lastOp, lastInput, lastResult, prevUsers, retired>>

(* ------------------------------ bounds -------------------------------- *)

\* how many of the well-formed addresses of EmailPool clients submit to
\* createUser
MaxEmails == 2

(* ------------------------------ strings ------------------------------- *)

LowerLetters ==
    {"a","b","c","d","e","f","g","h","i","j","k","l","m",
     "n","o","p","q","r","s","t","u","v","w","x","y","z"}

UpperLetters ==
    {"A","B","C","D","E","F","G","H","I","J","K","L","M",
     "N","O","P","Q","R","S","T","U","V","W","X","Y","Z"}

Letters == LowerLetters \cup UpperLetters

Digits == {"0","1","2","3","4","5","6","7","8","9"}

AlphaNum == Letters \cup Digits

Digit(d) ==
    CASE d = 0 -> "0" [] d = 1 -> "1" [] d = 2 -> "2" [] d = 3 -> "3"
      [] d = 4 -> "4" [] d = 5 -> "5" [] d = 6 -> "6" [] d = 7 -> "7"
      [] d = 8 -> "8" [] d = 9 -> "9"

RECURSIVE ToStr(_)
\* String(n) for a non-negative integer: its decimal digits, no leading zero
ToStr(n) ==
    IF n < 10 THEN <<Digit(n)>> ELSE Append(ToStr(n \div 10), Digit(n % 10))

\* index of the first c in s at or after position from, 0 when there is none
IndexOf(s, c, from) ==
    IF \E i \in from..Len(s) : s[i] = c
    THEN CHOOSE i \in from..Len(s) :
             s[i] = c /\ \A j \in from..(i - 1) : s[j] # c
    ELSE 0

\* index of the last c in s, 0 when there is none
LastIndexOf(s, c) ==
    IF \E i \in 1..Len(s) : s[i] = c
    THEN CHOOSE i \in 1..Len(s) :
             s[i] = c /\ \A j \in (i + 1)..Len(s) : s[j] # c
    ELSE 0

(* ----------------------------- validation ----------------------------- *)

\* z.string().min(1, ...): the id input of getUserById and deleteUser
ValidId(input) == Len(input) >= 1

\* one "label." group of the domain: [A-Z0-9][A-Z0-9\-]* (case-insensitive)
IsDomainLabel(s) ==
    /\ Len(s) >= 1
    /\ s[1] \in AlphaNum
    /\ \A i \in 2..Len(s) : s[i] \in AlphaNum \cup {"-"}

RECURSIVE IsDomainLabels(_)
\* ([A-Z0-9][A-Z0-9\-]*\.)+ : one or more labels, each closed by a dot
IsDomainLabels(s) ==
    LET dot == IndexOf(s, ".", 1) IN
    /\ dot >= 2
    /\ IsDomainLabel(SubSeq(s, 1, dot - 1))
    /\ \/ dot = Len(s)
       \/ IsDomainLabels(SubSeq(s, dot + 1, Len(s)))

\* z.string().email(): ^(?!\.)(?!.*\.\.)([A-Z0-9_'+\-\.]*)[A-Z0-9_+-]@
\*                      ([A-Z0-9][A-Z0-9\-]*\.)+[A-Z]{2,}$  (case-insensitive)
IsEmail(s) ==
    LET at      == IndexOf(s, "@", 1)
        local   == SubSeq(s, 1, at - 1)
        domain  == SubSeq(s, at + 1, Len(s))
        lastDot == LastIndexOf(domain, ".")
        tld     == SubSeq(domain, lastDot + 1, Len(domain))
    IN  /\ at >= 2
        /\ s[1] # "."
        /\ \A i \in 1..(Len(s) - 1) : ~(s[i] = "." /\ s[i + 1] = ".")
        /\ \A i \in 1..Len(local) :
               local[i] \in AlphaNum \cup {"_", "'", "+", "-", "."}
        /\ local[Len(local)] \in AlphaNum \cup {"_", "+", "-"}
        /\ lastDot >= 2
        /\ IsDomainLabels(SubSeq(domain, 1, lastDot))
        /\ Len(tld) >= 2
        /\ \A i \in 1..Len(tld) : tld[i] \in Letters

\* z.object({ name: z.string().min(2, ...), email: z.string().email(...) })
ValidCreateInput(input) ==
    /\ Len(input.name) >= 2
    /\ IsEmail(input.email)

(* ------------------------------ the store ----------------------------- *)

AliceEmail ==
    <<"a","l","i","c","e","@","e","x","a","m","p","l","e",".","c","o","m">>

BobEmail ==
    <<"b","o","b","@","e","x","a","m","p","l","e",".","c","o","m">>

CharlieEmail ==
    <<"c","h","a","r","l","i","e","@","e","x","a","m","p","l","e",".","c","o","m">>

Alice == [id |-> <<"1">>, name |-> <<"A","l","i","c","e">>, email |-> AliceEmail]

Bob == [id |-> <<"2">>, name |-> <<"B","o","b">>, email |-> BobEmail]

Charlie ==
    [id |-> <<"3">>, name |-> <<"C","h","a","r","l","i","e">>,
     email |-> CharlieEmail]

\* const users = [ ... ]: the three mock records
SeedUsers == <<Alice, Bob, Charlie>>

\* users.findIndex(u => u.id === id): first match, -1 when there is none
FindIndexById(us, id) ==
    IF \E i \in 1..Len(us) : us[i].id = id
    THEN CHOOSE i \in 1..Len(us) :
             us[i].id = id /\ \A j \in 1..(i - 1) : us[j].id # id
    ELSE -1

\* variant: only the most recently added record is compared
FindIndexByEmailLastOnly(us, email) ==
    IF Len(us) >= 1 /\ us[Len(us)].email = email THEN Len(us) ELSE -1

\* users.find(u => u.email === email), as the index of the first match
FindIndexByEmail(us, email) ==
    IF \E i \in 1..Len(us) : us[i].email = email
    THEN CHOOSE i \in 1..Len(us) :
             us[i].email = email /\ \A j \in 1..(i - 1) : us[j].email # email
    ELSE -1

\* variant: the last record is moved into the hole (swap-remove)
SpliceSwap(us, i) ==
    IF i = Len(us)
    THEN SubSeq(us, 1, i - 1)
    ELSE SubSeq(us, 1, i - 1) \o <<us[Len(us)]>> \o SubSeq(us, i + 1, Len(us) - 1)

\* users.splice(i, 1) for an index i of the array
Splice(us, i) == SubSeq(us, 1, i - 1) \o SubSeq(us, i + 1, Len(us))

(* ------------------------------ results ------------------------------- *)

\* a procedure's return value; data is the list of records it carries
Success(data) == [ok |-> TRUE, code |-> "OK", data |-> data]

\* variant: the lookup is returned without the "|| 'UNKNOWN_ERROR'" fallback
mapErrorCodeNoFallback(code) ==
    CASE code = "BAD_REQUEST"           -> "INVALID_INPUT"
      [] code = "UNAUTHORIZED"          -> "AUTH_REQUIRED"
      [] code = "FORBIDDEN"             -> "ACCESS_DENIED"
      [] code = "NOT_FOUND"             -> "RESOURCE_NOT_FOUND"
      [] code = "METHOD_NOT_SUPPORTED"  -> "INVALID_METHOD"
      [] code = "TIMEOUT"               -> "REQUEST_TIMEOUT"
      [] code = "CONFLICT"              -> "RESOURCE_CONFLICT"
      [] code = "PRECONDITION_FAILED"   -> "PRECONDITION_FAILED"
      [] code = "PAYLOAD_TOO_LARGE"     -> "PAYLOAD_TOO_LARGE"
      [] code = "UNPROCESSABLE_CONTENT" -> "VALIDATION_FAILED"
      [] code = "TOO_MANY_REQUESTS"     -> "RATE_LIMIT_EXCEEDED"
      [] code = "CLIENT_CLOSED_REQUEST" -> "CLIENT_DISCONNECTED"
      [] code = "INTERNAL_SERVER_ERROR" -> "SERVER_ERROR"
      [] OTHER                          -> "undefined"

\* errorCodeMap[code] || 'UNKNOWN_ERROR'
mapErrorCode(code) ==
    CASE code = "BAD_REQUEST"           -> "INVALID_INPUT"
      [] code = "UNAUTHORIZED"          -> "AUTH_REQUIRED"
      [] code = "FORBIDDEN"             -> "ACCESS_DENIED"
      [] code = "NOT_FOUND"             -> "RESOURCE_NOT_FOUND"
      [] code = "METHOD_NOT_SUPPORTED"  -> "INVALID_METHOD"
      [] code = "TIMEOUT"               -> "REQUEST_TIMEOUT"
      [] code = "CONFLICT"              -> "RESOURCE_CONFLICT"
      [] code = "PRECONDITION_FAILED"   -> "PRECONDITION_FAILED"
      [] code = "PAYLOAD_TOO_LARGE"     -> "PAYLOAD_TOO_LARGE"
      [] code = "UNPROCESSABLE_CONTENT" -> "VALIDATION_FAILED"
      [] code = "TOO_MANY_REQUESTS"     -> "RATE_LIMIT_EXCEEDED"
      [] code = "CLIENT_CLOSED_REQUEST" -> "CLIENT_DISCONNECTED"
      [] code = "INTERNAL_SERVER_ERROR" -> "SERVER_ERROR"
      [] OTHER                          -> "UNKNOWN_ERROR"

\* a thrown TRPCError with its code, as errorFormatter shapes it:
\* data.code is error.code and data.errorCode is mapErrorCode(error.code)
Failure(code) ==
    [ok |-> FALSE, code |-> code, errorCode |-> mapErrorCode(code), data |-> <<>>]

NoInput == [id |-> <<>>, name |-> <<>>, email |-> <<>>]

IdInput(id) == [id |-> id, name |-> <<>>, email |-> <<>>]

(* ----------------------------- procedures ----------------------------- *)
\* each procedure maps the store and its input to the store after the call
\* and the call's outcome

getUsers(us) == [users |-> us, result |-> Success(us)]

getUserById(us, input) ==
    LET i == FindIndexById(us, input) IN
    IF ~ValidId(input)
    THEN [users |-> us, result |-> Failure("BAD_REQUEST")]
    ELSE IF i = -1
    THEN [users |-> us, result |-> Failure("NOT_FOUND")]
    ELSE [users |-> us, result |-> Success(<<us[i]>>)]

\* variant: the email lookup runs before the input schema is applied
createUserConflictFirst(us, input) ==
    LET newUser == [id    |-> ToStr(Len(us) + 1),
                    name  |-> input.name,
                    email |-> input.email]
    IN
    IF FindIndexByEmail(us, input.email) # -1
    THEN [users |-> us, result |-> Failure("CONFLICT")]
    ELSE IF ~ValidCreateInput(input)
    THEN [users |-> us, result |-> Failure("BAD_REQUEST")]
    ELSE [users |-> Append(us, newUser), result |-> Success(<<newUser>>)]

\* variant: the id is String(users.length), without the "+ 1"
createUserIdFromLength(us, input) ==
    LET newUser == [id    |-> ToStr(Len(us)),
                    name  |-> input.name,
                    email |-> input.email]
    IN
    IF ~ValidCreateInput(input)
    THEN [users |-> us, result |-> Failure("BAD_REQUEST")]
    ELSE IF FindIndexByEmail(us, input.email) # -1
    THEN [users |-> us, result |-> Failure("CONFLICT")]
    ELSE [users |-> Append(us, newUser), result |-> Success(<<newUser>>)]

\* variant: the record is pushed before the email lookup's outcome is thrown
createUserPushFirst(us, input) ==
    LET newUser == [id    |-> ToStr(Len(us) + 1),
                    name  |-> input.name,
                    email |-> input.email]
    IN
    IF ~ValidCreateInput(input)
    THEN [users |-> us, result |-> Failure("BAD_REQUEST")]
    ELSE IF FindIndexByEmail(us, input.email) # -1
    THEN [users |-> Append(us, newUser), result |-> Failure("CONFLICT")]
    ELSE [users |-> Append(us, newUser), result |-> Success(<<newUser>>)]

createUser(us, input) ==
    LET newUser == [id    |-> ToStr(Len(us) + 1),
                    name  |-> input.name,
                    email |-> input.email]
    IN
    IF ~ValidCreateInput(input)
    THEN [users |-> us, result |-> Failure("BAD_REQUEST")]
    ELSE IF FindIndexByEmail(us, input.email) # -1
    THEN [users |-> us, result |-> Failure("CONFLICT")]
    ELSE [users |-> Append(us, newUser), result |-> Success(<<newUser>>)]

\* variant: the guard reads "if (!userIndex)", so index -1 falls through to
\* users[-1] (undefined) and users.splice(-1, 1), which drops the last record
deleteUserFalsyGuard(us, input) ==
    LET userIndex == FindIndexById(us, input) IN
    IF ~ValidId(input)
    THEN [users |-> us, result |-> Failure("BAD_REQUEST")]
    ELSE IF userIndex = 1
    THEN [users |-> us, result |-> Failure("NOT_FOUND")]
    ELSE IF userIndex = -1
    THEN [users |-> SubSeq(us, 1, Len(us) - 1), result |-> Success(<<>>)]
    ELSE [users |-> Splice(us, userIndex), result |-> Success(<<us[userIndex]>>)]

deleteUser(us, input) ==
    LET userIndex == FindIndexById(us, input) IN
    IF ~ValidId(input)
    THEN [users |-> us, result |-> Failure("BAD_REQUEST")]
    ELSE IF userIndex = -1
    THEN [users |-> us, result |-> Failure("NOT_FOUND")]
    ELSE [users |-> Splice(us, userIndex), result |-> Success(<<us[userIndex]>>)]

(* ------------------------------- inputs ------------------------------- *)

DanaEmail == <<"d","a","n","a","@","x",".","c","o","m">>

EveEmail == <<"e","v","e","@","x",".","c","o","m">>

FrankEmail == <<"f","r","a","n","k","@","x",".","c","o","m">>

\* well-formed addresses, new ones and the seed records' ones in turn
EmailPool ==
    <<DanaEmail, AliceEmail, EveEmail, BobEmail, FrankEmail, CharlieEmail>>

SubmittedEmails ==
    {EmailPool[i] : i \in 1..(IF MaxEmails < Len(EmailPool)
                              THEN MaxEmails ELSE Len(EmailPool))}

\* the submitted addresses no seed record has
NewEmails ==
    {e \in SubmittedEmails : \A i \in 1..Len(SeedUsers) : SeedUsers[i].email # e}

\* addresses the email grammar rejects
BadEmails ==
    { <<"d","a","n","a">>,
      <<"d","a","n","a","@","x">>,
      <<"a","l","i","c","e","@","e","x","a","m","p","l","e",".","c">> }

\* the submitted addresses a seed record has
SeedEmails == SubmittedEmails \ NewEmails

EmailInputs == SeedEmails \cup NewEmails \cup BadEmails

Dana == <<"D","a","n","a">>

NameInputs == {Dana, <<"D">>}

CreateInputs == [name : NameInputs, email : EmailInputs]

\* the empty id, an id String(n) never produces, and every id it can produce
IdInputs ==
    {<<>>, <<"0">>} \cup {ToStr(n) : n \in 1..(3 + Cardinality(NewEmails) + 1)}

(* ----------------------------- transitions ---------------------------- *)

Init ==
    /\ users = SeedUsers
    /\ lastOp = "none"
    /\ lastInput = NoInput
    /\ lastResult = Success(<<>>)
    /\ prevUsers = SeedUsers
    /\ retired = {}

GetUsers ==
    LET r == getUsers(users) IN
    /\ users' = r.users
    /\ lastOp' = "getUsers"
    /\ lastInput' = NoInput
    /\ lastResult' = r.result
    /\ prevUsers' = users
    /\ UNCHANGED retired

GetUserById ==
    \E input \in IdInputs :
        LET r == getUserById(users, input) IN
        /\ users' = r.users
        /\ lastOp' = "getUserById"
        /\ lastInput' = IdInput(input)
        /\ lastResult' = r.result
        /\ prevUsers' = users
        /\ UNCHANGED retired

CreateUser ==
    \E input \in CreateInputs :
        LET r == createUser(users, input) IN
        /\ users' = r.users
        /\ lastOp' = "createUser"
        /\ lastInput' = [id |-> <<>>, name |-> input.name, email |-> input.email]
        /\ lastResult' = r.result
        /\ prevUsers' = users
        /\ UNCHANGED retired

DeleteUser ==
    \E input \in IdInputs :
        LET r == deleteUser(users, input) IN
        /\ users' = r.users
        /\ lastOp' = "deleteUser"
        /\ lastInput' = IdInput(input)
        /\ lastResult' = r.result
        /\ prevUsers' = users
        /\ retired' = retired \cup
                          {r.result.data[k].id : k \in 1..Len(r.result.data)}

Next == GetUsers \/ GetUserById \/ CreateUser \/ DeleteUser

Spec == Init /\ [][Next]_vars

\* the error codes a TRPCError can carry: the thirteen of errorCodeMap and
\* two that tRPC raises and the map does not list
TrpcErrorCodes ==
    {"BAD_REQUEST", "UNAUTHORIZED", "FORBIDDEN", "NOT_FOUND",
     "METHOD_NOT_SUPPORTED", "TIMEOUT", "CONFLICT", "PRECONDITION_FAILED",
     "PAYLOAD_TOO_LARGE", "UNPROCESSABLE_CONTENT", "TOO_MANY_REQUESTS",
     "CLIENT_CLOSED_REQUEST", "INTERNAL_SERVER_ERROR",
     "PARSE_ERROR", "NOT_IMPLEMENTED"}

\* a request that fails outside the four handlers (unknown path, wrong
\* method, unparsable body, ...): the store is not touched and the error
\* goes through errorFormatter like any other
FormatError ==
    \E code \in TrpcErrorCodes :
        /\ lastOp' = "other"
        /\ lastInput' = NoInput
        /\ lastResult' = Failure(code)
        /\ prevUsers' = users
        /\ UNCHANGED <<users, retired>>

FormatNext == Next \/ FormatError

FormatSpec == Init /\ [][FormatNext]_vars

TypeOK ==
    /\ \A i \in 1..Len(users) : DOMAIN users[i] = {"id", "name", "email"}
    /\ lastOp \in {"none", "getUsers", "getUserById", "createUser", "deleteUser",
                 "other"}
    /\ lastResult.ok \in BOOLEAN

(* ------------------------- reading the last call ---------------------- *)

LastCreateInput == [name |-> lastInput.name, email |-> lastInput.email]

Ids(us) == {us[i].id : i \in 1..Len(us)}

Emails(us) == {us[i].email : i \in 1..Len(us)}

\* us with the record at position i left out, the others in their order
Without(us, i) ==
    [j \in 1..(Len(us) - 1) |-> IF j < i THEN us[j] ELSE us[j + 1]]

Dana4 == [id |-> <<"4">>, name |-> Dana, email |-> DanaEmail]

(* ------------------------------- claims ------------------------------- *)

\* C1: no two records of the store have the same id.
C1_UniqueIds ==
    \A i, j \in 1..Len(users) : i # j => users[i].id # users[j].id

\* C2: no two records of the store have the same email.
C2_UniqueEmails ==
    \A i, j \in 1..Len(users) : i # j => users[i].email # users[j].email

\* a seed address registered again after its record was deleted, next to
\* at least one other record
C2_Witness ==
    /\ Len(users) >= 2
    /\ \E i \in 1..Len(users) :
           users[i].email = AliceEmail /\ users[i].name = Dana

\* C3: createUser with a valid input whose email is unused succeeds, the id
\* it returns was the id of no record before the call, and getUserById of
\* that id right after returns exactly the submitted name and email with it.
C3_CreateThenGet ==
    (/\ lastOp = "createUser"
     /\ ValidCreateInput(LastCreateInput)
     /\ lastInput.email \notin Emails(prevUsers))
    => /\ lastResult.ok
       /\ Len(lastResult.data) = 1
       /\ lastResult.data[1].id \notin Ids(prevUsers)
       /\ getUserById(users, lastResult.data[1].id).result
              = Success(<<[id    |-> lastResult.data[1].id,
                           name  |-> lastInput.name,
                           email |-> lastInput.email]>>)

\* C4: deleteUser of an id present in the store returns the record with that
\* id, leaves every other record in place with the count one lower, and
\* getUserById of that id right after fails with NOT_FOUND.
C4_DeleteThenGet ==
    (/\ lastOp = "deleteUser"
     /\ lastInput.id \in Ids(prevUsers))
    => /\ lastResult.ok
       /\ Len(lastResult.data) = 1
       /\ lastResult.data[1].id = lastInput.id
       /\ Len(users) = Len(prevUsers) - 1
       /\ \E i \in 1..Len(prevUsers) :
              prevUsers[i] = lastResult.data[1] /\ users = Without(prevUsers, i)
       /\ getUserById(users, lastInput.id).result = Failure("NOT_FOUND")

\* C5: an id of a record that has been deleted is never assigned to a record
\* created later.
C5_NoIdReuse ==
    (lastOp = "createUser" /\ lastResult.ok)
    => \A k \in 1..Len(lastResult.data) : lastResult.data[k].id \notin retired

\* C6 as stated: createUser with an email some record already has fails with
\* CONFLICT and leaves the store as it was.
C6_ConflictAnyName ==
    (/\ lastOp = "createUser"
     /\ lastInput.email \in Emails(prevUsers))
    => /\ lastResult = Failure("CONFLICT")
       /\ users = prevUsers

\* C6 amended: createUser with a name of at least 2 characters and an email
\* some record already has fails with CONFLICT and leaves the store as it was.
C6_ConflictValidName ==
    (/\ lastOp = "createUser"
     /\ Len(lastInput.name) >= 2
     /\ lastInput.email \in Emails(prevUsers))
    => /\ lastResult = Failure("CONFLICT")
       /\ users = prevUsers

\* a rejected registration of an address that is in the store
C6_Witness ==
    /\ lastOp = "createUser"
    /\ Len(lastInput.name) >= 2
    /\ lastInput.email \in Emails(prevUsers)
    /\ lastResult.code = "CONFLICT"
    /\ Len(prevUsers) >= 1

\* C7 as stated: getUserById and deleteUser with an id no record has fail
\* with NOT_FOUND, and the store is as it was.
C7_AbsentAnyId ==
    (/\ lastOp \in {"getUserById", "deleteUser"}
     /\ lastInput.id \notin Ids(prevUsers))
    => /\ lastResult = Failure("NOT_FOUND")
       /\ users = prevUsers

\* C7 amended: getUserById and deleteUser with a non-empty id no record has
\* fail with NOT_FOUND, and the store is as it was.
C7_AbsentNonEmptyId ==
    (/\ lastOp \in {"getUserById", "deleteUser"}
     /\ Len(lastInput.id) >= 1
     /\ lastInput.id \notin Ids(prevUsers))
    => /\ lastResult = Failure("NOT_FOUND")
       /\ users = prevUsers

\* a second deleteUser of an id whose record is gone
C7_Witness ==
    /\ lastOp = "deleteUser"
    /\ lastInput.id \in retired
    /\ lastInput.id \notin Ids(prevUsers)
    /\ lastResult.code = "NOT_FOUND"

\* C8: createUser with a name shorter than 2 characters or a malformed email
\* fails with the validation error and leaves the store as it was, also when
\* the submitted email is one a record already has.
C8_ValidationFirst ==
    (/\ lastOp = "createUser"
     /\ \/ Len(lastInput.name) < 2
        \/ lastInput.email \in BadEmails
        \/ ~IsEmail(lastInput.email))
    => /\ lastResult = Failure("BAD_REQUEST")
       /\ users = prevUsers

\* a one-character name submitted with an address that is in the store
C8_Witness ==
    /\ lastOp = "createUser"
    /\ Len(lastInput.name) < 2
    /\ lastInput.email \in Emails(prevUsers)
    /\ lastResult.code = "BAD_REQUEST"

\* C9: from the seed store, getUsers returns Alice, Bob, Charlie in that
\* order; createUser of Dana returns a record with id "4"; deleteUser("2")
\* then returns Bob's record; getUsers then returns Alice, Charlie, Dana.
C9_Scenario ==
    /\ (lastOp = "getUsers" /\ prevUsers = SeedUsers)
       => lastResult = Success(<<Alice, Bob, Charlie>>)
    /\ (/\ lastOp = "createUser"
        /\ prevUsers = SeedUsers
        /\ LastCreateInput = [name |-> Dana, email |-> DanaEmail])
       => /\ lastResult = Success(<<Dana4>>)
          /\ users = <<Alice, Bob, Charlie, Dana4>>
    /\ (/\ lastOp = "deleteUser"
        /\ prevUsers = <<Alice, Bob, Charlie, Dana4>>
        /\ lastInput.id = <<"2">>)
       => /\ lastResult = Success(<<Bob>>)
          /\ users = <<Alice, Charlie, Dana4>>
    /\ (lastOp = "getUsers" /\ prevUsers = <<Alice, Charlie, Dana4>>)
       => lastResult = Success(<<Alice, Charlie, Dana4>>)

\* the end of the scenario: the list read back after Bob was deleted
C9_Witness ==
    /\ lastOp = "getUsers"
    /\ users = <<Alice, Charlie, Dana4>>
    /\ lastResult.data = <<Alice, Charlie, Dana4>>
    /\ retired = {<<"2">>}

\* C10: getUsers succeeds with the whole store in its order; a successful
\* createUser appends its record after the existing ones; deleteUser keeps
\* the remaining records in their order; the two queries leave the store as
\* it was.
C10_OrderAndFrame ==
    /\ lastOp = "getUsers"
       => lastResult = Success(users) /\ users = prevUsers
    /\ lastOp = "getUserById" => users = prevUsers
    /\ (lastOp = "createUser" /\ lastResult.ok)
       => /\ Len(lastResult.data) = 1
          /\ users = prevUsers \o lastResult.data
    /\ (lastOp = "createUser" /\ ~lastResult.ok) => users = prevUsers
    /\ lastOp = "deleteUser"
       => \/ users = prevUsers
          \/ \E i \in 1..Len(prevUsers) : users = Without(prevUsers, i)

\* a record deleted from the front of a store that had grown by a record
C10_Witness ==
    /\ lastOp = "deleteUser"
    /\ lastResult.ok
    /\ Len(users) >= 3
    /\ prevUsers[1] # users[1]
    /\ users[Len(users)].name = Dana

\* the thirteen entries of the lookup table, as <<code, application code>>
ListedCodes ==
    { <<"BAD_REQUEST", "INVALID_INPUT">>,
      <<"UNAUTHORIZED", "AUTH_REQUIRED">>,
      <<"FORBIDDEN", "ACCESS_DENIED">>,
      <<"NOT_FOUND", "RESOURCE_NOT_FOUND">>,
      <<"METHOD_NOT_SUPPORTED", "INVALID_METHOD">>,
      <<"TIMEOUT", "REQUEST_TIMEOUT">>,
      <<"CONFLICT", "RESOURCE_CONFLICT">>,
      <<"PRECONDITION_FAILED", "PRECONDITION_FAILED">>,
      <<"PAYLOAD_TOO_LARGE", "PAYLOAD_TOO_LARGE">>,
      <<"UNPROCESSABLE_CONTENT", "VALIDATION_FAILED">>,
      <<"TOO_MANY_REQUESTS", "RATE_LIMIT_EXCEEDED">>,
      <<"CLIENT_CLOSED_REQUEST", "CLIENT_DISCONNECTED">>,
      <<"INTERNAL_SERVER_ERROR", "SERVER_ERROR">> }

\* every failure carries the application code of its table entry, and
\* UNKNOWN_ERROR when its code has no entry
ErrorCodeFromTable ==
    ~lastResult.ok
    => /\ Cardinality(ListedCodes) = 13
       /\ \A p \in ListedCodes :
              lastResult.code = p[1] => lastResult.errorCode = p[2]
       /\ (\A p \in ListedCodes : lastResult.code # p[1])
              => lastResult.errorCode = "UNKNOWN_ERROR"

\* C11 as stated: each of the 13 listed codes maps to its application code
\* and every other code to UNKNOWN_ERROR; every failed getUserById or
\* deleteUser carries RESOURCE_NOT_FOUND and every createUser whose email a
\* record already has carries RESOURCE_CONFLICT.
C11_ErrorCodesAnyInput ==
    /\ ErrorCodeFromTable
    /\ (lastOp \in {"getUserById", "deleteUser"} /\ ~lastResult.ok)
       => lastResult.errorCode = "RESOURCE_NOT_FOUND"
    /\ (lastOp = "createUser" /\ lastInput.email \in Emails(prevUsers))
       => (~lastResult.ok /\ lastResult.errorCode = "RESOURCE_CONFLICT")

\* C11 amended: each of the 13 listed codes maps to its application code and
\* every other code to UNKNOWN_ERROR; every getUserById or deleteUser that
\* fails on a non-empty id carries RESOURCE_NOT_FOUND (on the empty id,
\* INVALID_INPUT) and every createUser with a name of at least 2 characters
\* whose email a record already has carries RESOURCE_CONFLICT (with a
\* shorter name, INVALID_INPUT).
C11_ErrorCodesValidInput ==
    /\ ErrorCodeFromTable
    /\ (lastOp \in {"getUserById", "deleteUser"} /\ ~lastResult.ok)
       => lastResult.errorCode = (IF Len(lastInput.id) >= 1
                                  THEN "RESOURCE_NOT_FOUND"
                                  ELSE "INVALID_INPUT")
    /\ (lastOp = "createUser" /\ lastInput.email \in Emails(prevUsers))
       => /\ ~lastResult.ok
          /\ lastResult.errorCode = (IF Len(lastInput.name) >= 2
                                     THEN "RESOURCE_CONFLICT"
                                     ELSE "INVALID_INPUT")

\* an error whose code the table does not list, raised after a record has
\* been deleted from the store
C11_Witness ==
    /\ lastOp = "other"
    /\ lastResult.code = "PARSE_ERROR"
    /\ lastResult.errorCode = "UNKNOWN_ERROR"
    /\ retired # {}

====
